---- MODULE Spec2Model ----
(***************************************************************************)
(* Model of the in-page frame-inspection overlay engine of                 *)
(* ps-analysis-tool: the WebpageContentScript controller (content script)  *)
(* and the setTooltipPosition placement function.                          *)
(*                                                                         *)
(* The controller's handlers are written as operators from a state record  *)
(* to a state record, statement by statement; the actions apply them to    *)
(* the variables.  The popover factory (./popovers) and the geometry       *)
(* utilities (./utils) are imported by the controller but their files are  *)
(* not part of the source at hand: they are modelled from the design       *)
(* document (sections 4.1 and 4.2).                                        *)
(***************************************************************************)
EXTENDS Integers, Sequences, FiniteSets, TLC

\* ------------------------------------------------------------------ bounds

\* Largest number of frame elements of the inspected origin in a document.
MaxFrames == 3

\* Placement: the viewport is ViewportSize wide and high; a frame's corner
\* lies at a document position in 0..MaxDocPos, the window is scrolled by
\* 0..MaxScroll in each direction, a frame is 0..MaxFrameSize wide and high
\* and every read of the tooltip's width or height returns 1..MaxTipSize.
ViewportSize == 3
MaxDocPos == 4
MaxScroll == 1
MaxFrameSize == 1
MaxTipSize == 2

\* ------------------------------------------------------- document (the DOM)

NoFrame == 0          \* null frame reference
NoPort == "null"      \* null port reference
NoSel == "undefined"  \* response.selectedFrame absent
NullSrc == "null"     \* getAttribute('src') of a frame without the attribute

\* The origin matched by the two matching frames, an origin no frame has,
\* and document.location.origin.
OriginA == "https://a.test"
OriginB == "https://b.test"
DocOrigin == "https://host.test"

\* The frame elements a command can match.  src is the src attribute,
\* region the part of the page the frame lies in (0: the part the window
\* shows when the page is loaded, 1: a part further down, shown after the
\* window has scrolled there), inViewport says that the bounding rectangle
\* intersects the viewport, observed is the frame's own intersection state
\* (used by the strict visibility test), clientWidth the rendered width.
FrameKinds ==
  { [src |-> "https://a.test/page", region |-> 0, inViewport |-> TRUE,  observed |-> TRUE,  clientWidth |-> 1],
    [src |-> "https://a.test/page", region |-> 1, inViewport |-> FALSE, observed |-> FALSE, clientWidth |-> 1],
    [src |-> "https://a.test/page", region |-> 1, inViewport |-> FALSE, observed |-> FALSE, clientWidth |-> 0] }

\* The frames no command matches: one without a source and one whose src
\* the URL parser rejects, both rendered in the viewport.
OtherFrames ==
  << [src |-> "about:blank", region |-> 0, inViewport |-> TRUE, observed |-> TRUE, clientWidth |-> 1],
     [src |-> "not a url",   region |-> 0, inViewport |-> TRUE, observed |-> TRUE, clientWidth |-> 1] >>

\* Every document of at most MaxFrames a.test frames, in document order,
\* followed by the two frames no command matches.
Docs ==
  { m \o OtherFrames : m \in UNION { [1..n -> FrameKinds] : n \in 0..MaxFrames } }

\* The absolute URLs of the documents and their origins.
UrlOrigins ==
  [ src \in {"https://a.test/page", "https://b.test/page", "https://host.test/page"}
      |-> IF src = "https://a.test/page" THEN OriginA
          ELSE IF src = "https://b.test/page" THEN OriginB
          ELSE DocOrigin ]

\* A URL parser that accepts every string.
URLOrigin_Lenient(src) ==
  IF src \in DOMAIN UrlOrigins THEN UrlOrigins[src] ELSE "null"

\* new URL(src).origin: the origin of an absolute http(s) URL, "null" for
\* about:blank, and "throw" (a TypeError) for "not a url", the one src of
\* the documents that the URL parser rejects.
URLOrigin(src) ==
  IF src \in DOMAIN UrlOrigins THEN UrlOrigins[src]
  ELSE IF src = "about:blank" THEN "null"
  ELSE "throw"

\* ------------------------------------------------------------------- state

VARIABLES
  doc,                   \* the document's frame elements as the window shows them
  port,                  \* this.port
  isInspecting,          \* this.isInspecting
  isHoveringOverPage,    \* this.isHoveringOverPage
  bodyHoverStateSent,    \* this.bodyHoverStateSent
  scrollEventListeners,  \* this.scrollEventListeners (callback ids, in order)
  hoveredFrame,          \* this.hoveredFrame
  docListeners,          \* events of document/docElement with a handler bound
  windowScroll,          \* callbacks bound to window 'scroll'
  popovers,              \* overlay and tooltip nodes of the document, in order
  highlighting,          \* frame-highlighting mode (toggleFrameHighlighting)
  connState,             \* every connection: none, open, torn, closed
  portListeners,         \* every connection: listeners bound on the port
  runtimeId,             \* chrome.runtime?.id is defined
  sent,                  \* messages posted by the last handled event
  scrolledTo,            \* tooltip scrolled into view by the last event (0: none)
  sendError,             \* postMessage threw in the last event: none, caught, uncaught
  lastOp,                \* the last handled event
  scene,                 \* placement: the frame, the window and the selection
  tip,                   \* placement: the tooltip element being positioned
  called                 \* placement: the last step ran setTooltipPosition

ctrlVars == << doc, port, isInspecting, isHoveringOverPage, bodyHoverStateSent,
               scrollEventListeners, hoveredFrame, docListeners, windowScroll,
               popovers, highlighting, connState, portListeners, runtimeId,
               sent, scrolledTo, sendError, lastOp >>

placeVars == << scene, tip, called >>

vars == << doc, port, isInspecting, isHoveringOverPage, bodyHoverStateSent,
           scrollEventListeners, hoveredFrame, docListeners, windowScroll,
           popovers, highlighting, connState, portListeners, runtimeId,
           sent, scrolledTo, sendError, lastOp, scene, tip, called >>

\* The controller's state as one record, the argument of every handler.
St ==
  [ doc |-> doc, port |-> port, isInspecting |-> isInspecting,
    isHoveringOverPage |-> isHoveringOverPage,
    bodyHoverStateSent |-> bodyHoverStateSent,
    scrollEventListeners |-> scrollEventListeners,
    hoveredFrame |-> hoveredFrame, docListeners |-> docListeners,
    windowScroll |-> windowScroll, popovers |-> popovers,
    highlighting |-> highlighting, connState |-> connState,
    portListeners |-> portListeners, runtimeId |-> runtimeId,
    sent |-> sent, scrolledTo |-> scrolledTo, sendError |-> sendError,
    lastOp |-> lastOp ]

Apply(n) ==
  /\ doc' = n.doc
  /\ port' = n.port
  /\ isInspecting' = n.isInspecting
  /\ isHoveringOverPage' = n.isHoveringOverPage
  /\ bodyHoverStateSent' = n.bodyHoverStateSent
  /\ scrollEventListeners' = n.scrollEventListeners
  /\ hoveredFrame' = n.hoveredFrame
  /\ docListeners' = n.docListeners
  /\ windowScroll' = n.windowScroll
  /\ popovers' = n.popovers
  /\ highlighting' = n.highlighting
  /\ connState' = n.connState
  /\ portListeners' = n.portListeners
  /\ runtimeId' = n.runtimeId
  /\ sent' = n.sent
  /\ scrolledTo' = n.scrolledTo
  /\ sendError' = n.sendError
  /\ lastOp' = n.lastOp
  /\ UNCHANGED placeVars

Range(s) == { s[i] : i \in 1..Len(s) }

\* The connections the platform may open: two whose name starts with
\* WEBPAGE_PORT_NAME and one whose name does not.
AllConns == {"A", "B", "X"}
\* startsWith that accepts every name.
NameStartsWithPrefix_Any(c) == TRUE

NameStartsWithPrefix(c) == c \in {"A", "B"}

HoverEvents == {"mouseover", "mouseout"}
MoveEvents == {"visibilitychange", "mouseleave", "mouseenter"}

\* ------------------------------------------------- geometry utilities (./utils)

\* isElementVisibleInViewport(el, strict): false for null; the bounding
\* rectangle intersects the viewport; the strict variant also requires the
\* element's own intersection state.
isElementVisibleInViewport(d, f, strict) ==
  /\ f # NoFrame
  /\ d[f].inViewport
  /\ (strict => d[f].observed)

\* isFrameHidden(frame): fails the visibility test and has zero width.
isFrameHidden(d, f) ==
  /\ ~isElementVisibleInViewport(d, f, FALSE)
  /\ d[f].clientWidth = 0

\* getFrameCount(frameElements)
getFrameCount(d, frameElements) ==
  LET hidden == { i \in 1..Len(frameElements) : isFrameHidden(d, frameElements[i]) }
  IN [ numberOfFrames |-> Len(frameElements),
       numberOfVisibleFrames |-> Len(frameElements) - Cardinality(hidden),
       numberOfHiddenFrames |-> Cardinality(hidden) ]

\* ---------------------------------------------------- popover factory (./popovers)

RECURSIVE MatchFrom(_, _, _)
MatchFrom(d, selectedFrame, i) ==
  IF i > Len(d) THEN << >>
  ELSE (IF URLOrigin(d[i].src) = selectedFrame THEN << i >> ELSE << >>)
       \o MatchFrom(d, selectedFrame, i + 1)

\* findSelectedFrameElements(selectedFrame): the frames whose resolved origin
\* matches the target, in document order.
findSelectedFrameElements(d, selectedFrame) == MatchFrom(d, selectedFrame, 1)

\* removeAllPopovers() of the factory: removes every overlay and tooltip node.
removeAllPopovers(st) == [st EXCEPT !.popovers = << >>]

\* toggleFrameHighlighting(on)
toggleFrameHighlighting(st, on) == [st EXCEPT !.highlighting = on]

\* The id of the next node created: the least one no node and no callback has.
FreshId(st) ==
  LET used == { p.id : p \in Range(st.popovers) }
                \cup Range(st.scrollEventListeners) \cup st.windowScroll
  IN CHOOSE i \in 1..(Cardinality(used) + 1) :
       i \notin used /\ \A j \in 1..(i - 1) : j \in used

\* addOverlay(frame): appends an overlay node for the frame.
addOverlay(st, id, frame) ==
  [st EXCEPT !.popovers = Append(@,
     [id |-> id, kind |-> "overlay", frame |-> frame, visible |-> 0,
      hidden |-> 0, isHiddenFrame |-> FALSE, selectedFrame |-> NoSel])]

\* addTooltip(frame, response, numberOfVisibleFrames, numberOfHiddenFrames):
\* appends a tooltip node showing the counts; isHiddenFrame and selectedFrame
\* are the arguments its position was last set with (setTooltipPosition).
addTooltip(st, id, frame, numberOfVisibleFrames, numberOfHiddenFrames, isHiddenFrame, selectedFrame) ==
  [st EXCEPT !.popovers = Append(@,
     [id |-> id, kind |-> "tooltip", frame |-> frame,
      visible |-> numberOfVisibleFrames, hidden |-> numberOfHiddenFrames,
      isHiddenFrame |-> isHiddenFrame, selectedFrame |-> selectedFrame])]

\* ------------------------------------------------ controller (WebpageContentScript)

\* addEventListeners(): addEventListener of a handler already bound is a no-op.
addEventListeners(st) ==
  [st EXCEPT !.docListeners = @ \cup HoverEvents \cup MoveEvents]

\* removeEventListeners()
removeEventListeners(st) ==
  [st EXCEPT !.docListeners = @ \ (HoverEvents \cup MoveEvents)]

\* addEventListerOnScroll that binds the callback without registering it.
addEventListerOnScroll_NoRegister(st, callback) ==
  [st EXCEPT !.windowScroll = @ \cup {callback}]

\* addEventListerOnScroll(callback): the callback is identified by the id of
\* the node it repositions.
addEventListerOnScroll(st, callback) ==
  [st EXCEPT !.scrollEventListeners = Append(@, callback),
             !.windowScroll = @ \cup {callback}]

\* insertOverlay(frame)
insertOverlay(st, frame) ==
  LET id == FreshId(st)
  IN addEventListerOnScroll(addOverlay(st, id, frame), id)

\* insertTooltip(frame, numberOfVisibleFrames, numberOfHiddenFrames, response)
insertTooltip(st, frame, numberOfVisibleFrames, numberOfHiddenFrames, selectedFrame) ==
  LET id == FreshId(st)
      isHiddenForFirstTime ==
        IF frame # NoFrame THEN st.doc[frame].clientWidth = 0 ELSE FALSE
  IN addEventListerOnScroll(
       addTooltip(st, id, frame, numberOfVisibleFrames, numberOfHiddenFrames,
                  isHiddenForFirstTime, selectedFrame),
       id)

\* The tooltip insertTooltip returns: the node it has just appended.
LastInserted(st) == st.popovers[Len(st.popovers)].id

\* this.removeAllPopovers() that removes the nodes only.
drainAndRemoveAllPopovers_KeepListeners(st) == removeAllPopovers(st)

\* this.removeAllPopovers(): unbinds and drops the registered scroll
\* callbacks, then removes the nodes.
drainAndRemoveAllPopovers(st) ==
  removeAllPopovers(
    IF Len(st.scrollEventListeners) # 0
    THEN [st EXCEPT !.windowScroll = @ \ Range(st.scrollEventListeners),
                    !.scrollEventListeners = << >>]
    ELSE st)

\* abortInspection() that leaves the hover and visibility listeners bound.
abortInspection_KeepListeners(st) ==
  [ toggleFrameHighlighting(removeAllPopovers(st), FALSE)
    EXCEPT !.isInspecting = FALSE ]

\* abortInspection() that also clears the body-hover debounce flag.
abortInspection_ResetFlag(st) ==
  [ toggleFrameHighlighting(removeAllPopovers(removeEventListeners(st)), FALSE)
    EXCEPT !.isInspecting = FALSE, !.bodyHoverStateSent = FALSE ]

\* abortInspection(): calls the factory's removeAllPopovers, not the method.
abortInspection(st) ==
  [ toggleFrameHighlighting(removeAllPopovers(removeEventListeners(st)), FALSE)
    EXCEPT !.isInspecting = FALSE ]

\* onDisconnect() that leaves the message listener on the port.
onDisconnect_KeepListener(st) == abortInspection([st EXCEPT !.port = NoPort])

\* onDisconnect() that drops the handle and leaves the inspection running.
onDisconnect_KeepInspecting(st) ==
  [st EXCEPT !.port = NoPort,
             !.portListeners = IF st.port # NoPort
                               THEN [@ EXCEPT ![st.port] = @ \ {"message"}]
                               ELSE @]

\* onDisconnect()
onDisconnect(st) ==
  LET unbound ==
        IF st.port # NoPort
        THEN [st EXCEPT !.portListeners[st.port] = @ \ {"message"}]
        ELSE st
  IN abortInspection([unbound EXCEPT !.port = NoPort])

\* The forEach of insertOverlay walking the list from its end.
RECURSIVE insertOverlays_Backwards(_, _, _, _)
insertOverlays_Backwards(st, frameElements, i, skipHidden) ==
  IF i > Len(frameElements) THEN st
  ELSE LET frame == frameElements[Len(frameElements) + 1 - i]
       IN insertOverlays_Backwards(
            IF skipHidden /\ isFrameHidden(st.doc, frame)
            THEN st ELSE insertOverlay(st, frame),
            frameElements, i + 1, skipHidden)

\* frameElements.forEach(insertOverlay), from position i; with skipHidden
\* only the frames that are not hidden.
RECURSIVE insertOverlays(_, _, _, _)
insertOverlays(st, frameElements, i, skipHidden) ==
  IF i > Len(frameElements) THEN st
  ELSE insertOverlays(
         IF skipHidden /\ isFrameHidden(st.doc, frameElements[i])
         THEN st ELSE insertOverlay(st, frameElements[i]),
         frameElements, i + 1, skipHidden)

\* The forEach that looks for a visible frame (lines 287-292): its return
\* leaves the callback only, so every later visible frame overwrites the
\* choice.
RECURSIVE visibleFrameChoice(_, _, _, _)
visibleFrameChoice(d, frameElements, i, current) ==
  IF i > Len(frameElements) THEN current
  ELSE visibleFrameChoice(d, frameElements, i + 1,
         IF isElementVisibleInViewport(d, frameElements[i], TRUE)
         THEN frameElements[i] ELSE current)

\* The second forEach of the mixed branch (lines 328-343), from position i;
\* acc is [st, frameWithTooltip, firstToolTip].
RECURSIVE insertMixedTooltips(_, _, _, _, _, _)
insertMixedTooltips(acc, frameElements, i, vis, hid, selectedFrame) ==
  IF i > Len(frameElements) THEN acc
  ELSE LET frame == frameElements[i]
           st1 == insertTooltip(acc.st, frame, vis, hid, selectedFrame)
       IN insertMixedTooltips(
            IF ~isFrameHidden(acc.st.doc, frame)
            THEN [ st |-> st1, frameWithTooltip |-> frame,
                   firstToolTip |-> IF i = 1 THEN LastInserted(st1)
                                    ELSE acc.firstToolTip ]
            ELSE acc,
            frameElements, i + 1, vis, hid, selectedFrame)

\* insertPopoversConditionHandler(frameElements, visibleIFrameCount,
\* hiddenIFrameCount, response): [st, frameWithTooltip, firstToolTip].
insertPopoversConditionHandler(st, frameElements, visibleIFrameCount, hiddenIFrameCount, selectedFrame) ==
  IF 0 = hiddenIFrameCount
  THEN LET st1 == insertOverlays(st, frameElements, 1, FALSE)
           iframeForTooltip ==
             IF st.hoveredFrame # NoFrame THEN st.hoveredFrame
             ELSE visibleFrameChoice(st.doc, frameElements, 1, frameElements[1])
           st2 == insertTooltip(st1, iframeForTooltip, visibleIFrameCount,
                                hiddenIFrameCount, selectedFrame)
       IN [ st |-> st2, frameWithTooltip |-> iframeForTooltip,
            firstToolTip |-> LastInserted(st2) ]
  ELSE IF 0 = visibleIFrameCount
  THEN LET frame == frameElements[1]
       IN [ st |-> insertTooltip(insertOverlay(st, frame), frame,
                                 visibleIFrameCount, hiddenIFrameCount,
                                 selectedFrame),
            frameWithTooltip |-> NoFrame, firstToolTip |-> 0 ]
  ELSE insertMixedTooltips(
         [ st |-> insertOverlays(st, frameElements, 1, TRUE),
           frameWithTooltip |-> NoFrame, firstToolTip |-> 0 ],
         frameElements, 1, visibleIFrameCount, hiddenIFrameCount, selectedFrame)

\* The inspection commands (ResponseType).
Responses ==
  [ isInspecting : BOOLEAN, selectedFrame : {NoSel, OriginA, OriginB},
    removeAllFramePopovers : BOOLEAN ]

\* The frame whose popover has the given id.
frameOfPopover(st, id) ==
  LET i == CHOOSE i \in 1..Len(st.popovers) : st.popovers[i].id = id
  IN st.popovers[i].frame

\* firstToolTip.scrollIntoView({behavior: 'instant'}), lines 395-399: the
\* window moves to the tooltip, which lies at its frame; the frames of that
\* part of the page are in the viewport afterwards and the others are not.
\* A tooltip pinned to the viewport (its frame has no width) is in view
\* wherever the window is, and the window stays.
scrollIntoView(st, id) ==
  LET frame == frameOfPopover(st, id)
      region == st.doc[frame].region
  IN IF st.doc[frame].clientWidth = 0
     THEN [st EXCEPT !.scrolledTo = id]
     ELSE [st EXCEPT !.scrolledTo = id,
                     !.doc = [i \in 1..Len(st.doc) |->
                                [st.doc[i] EXCEPT !.inViewport = (st.doc[i].region = region),
                                                  !.observed = (st.doc[i].region = region)]]]

\* insertPopovers, lines 363-400: the popovers of the selected frame.
insertSelectedPopovers(st, response) ==
    LET frameElements == findSelectedFrameElements(st.doc, response.selectedFrame)
        frameCount == getFrameCount(st.doc, frameElements)
        st1 == drainAndRemoveAllPopovers(st)
    IN IF frameCount.numberOfFrames = 0
       THEN insertTooltip(st1, NoFrame, 0, 0, response.selectedFrame)
       ELSE
         LET frameToScrollTo == frameElements[1]
             popoverElement ==
               insertPopoversConditionHandler(st1, frameElements,
                 frameCount.numberOfVisibleFrames,
                 frameCount.numberOfHiddenFrames, response.selectedFrame)
             st2 == popoverElement.st
         IN IF /\ popoverElement.firstToolTip # 0
               /\ ~st2.isHoveringOverPage
               /\ st2.doc[frameToScrollTo].clientWidth # 0
               /\ ~isElementVisibleInViewport(st2.doc,
                     popoverElement.frameWithTooltip, FALSE)
            THEN scrollIntoView(st2, popoverElement.firstToolTip)
            ELSE st2

\* insertPopovers that clears the popovers of every command without a
\* selectedFrame.
insertPopovers_ClearWithoutTarget(st, response) ==
  IF response.selectedFrame = NoSel THEN removeAllPopovers(st)
  ELSE insertSelectedPopovers(st, response)

\* insertPopovers that leaves the popovers in place when told to remove them.
insertPopovers_NoClear(st, response) ==
  IF response.selectedFrame = NoSel THEN st
  ELSE insertSelectedPopovers(st, response)

\* insertPopovers(response)
insertPopovers(st, response) ==
  IF response.removeAllFramePopovers /\ response.selectedFrame = NoSel
  THEN removeAllPopovers(st)
  ELSE IF response.selectedFrame = NoSel THEN st
  ELSE insertSelectedPopovers(st, response)

\* onMessage(response)
onMessage(st, response) ==
  LET st1 == [st EXCEPT !.isInspecting = response.isInspecting]
  IN IF response.isInspecting
     THEN insertPopovers(
            toggleFrameHighlighting(
              addEventListeners(removeEventListeners(st1)), TRUE),
            response)
     ELSE abortInspection(st1)

\* port.postMessage throws on a port whose channel is torn down.
PostThrows(st) == st.connState[st.port] = "torn"

BodyHoverMessage ==
  [ iframeOrigin |-> "", isNullSetFromHover |-> "undefined" ]

FrameHoverMessage(origin) ==
  [ iframeOrigin |-> IF origin # "" THEN origin ELSE "",
    isNullSetFromHover |-> IF origin # "" THEN "false" ELSE "true" ]

\* The targets of a pointer event: an element of the page that is neither a
\* frame nor part of a tooltip ("body"), an element of a tooltip or one marked
\* hoverable ("tooltip"), or a frame element ("frame").
BodyTarget == [kind |-> "body", frame |-> NoFrame]
TooltipTarget == [kind |-> "tooltip", frame |-> NoFrame]
FrameTarget(f) == [kind |-> "frame", frame |-> f]

\* target.tagName === 'IFRAME'
IsFrameTarget(target) == target.kind = "frame"

\* The report of a body hover that does not record that it was sent.
handleBodyHover_NoFlag(st, target) ==
  IF /\ ~st.bodyHoverStateSent
     /\ st.isInspecting
     /\ target.kind # "frame"
     /\ st.port # NoPort
  THEN LET st1 == removeAllPopovers(st)
       IN IF st1.runtimeId /\ st1.connState[st1.port] = "torn"
          THEN [st1 EXCEPT !.sendError = "uncaught"]
          ELSE [st1 EXCEPT
                  !.sent = IF st1.runtimeId THEN Append(@, BodyHoverMessage) ELSE @]
  ELSE st

\* handleHoverEvent, lines 427-444: the report of a body hover.
handleBodyHover(st, target) ==
  IF /\ ~st.bodyHoverStateSent
     /\ st.isInspecting
     /\ ~IsFrameTarget(target)
     /\ st.port # NoPort
  THEN LET st1 == removeAllPopovers(st)
       IN IF st1.runtimeId /\ PostThrows(st1)
          THEN [st1 EXCEPT !.sendError = "uncaught"]
          ELSE [st1 EXCEPT
                  !.sent = IF st1.runtimeId THEN Append(@, BodyHoverMessage) ELSE @,
                  !.bodyHoverStateSent = TRUE]
  ELSE st

\* The frame path that reports the frame without rendering anything.
handleFrameHover_NoRender(st, target) ==
  LET st1 == [st EXCEPT !.bodyHoverStateSent = FALSE, !.hoveredFrame = target.frame]
      attr == st.doc[target.frame].src
      url == IF attr \in {NullSrc, "", "about:blank"} THEN "" ELSE URLOrigin(attr)
  IN IF url = "throw" \/ st1.port = NoPort \/ ~st1.runtimeId THEN st1
     ELSE IF st1.connState[st1.port] = "torn"
     THEN abortInspection([st1 EXCEPT !.sendError = "caught"])
     ELSE [st1 EXCEPT !.sent = Append(@, FrameHoverMessage(url))]

\* handleHoverEvent, lines 450-496: a frame under the pointer while inspecting.
handleFrameHover(st, target) ==
  LET frame == target.frame
      st1 == [st EXCEPT !.bodyHoverStateSent = FALSE, !.hoveredFrame = frame]
      attr == st.doc[frame].src
      srcAttribute == IF attr = "about:blank" THEN "" ELSE attr
      noSrc == srcAttribute \in {NullSrc, ""}
      st2 == IF noSrc
             THEN insertTooltip(
                    insertOverlay(drainAndRemoveAllPopovers(st1), frame),
                    frame, 1, 0, NoSel)
             ELSE st1
      url == IF noSrc THEN "" ELSE URLOrigin(srcAttribute)
  IN IF url = "throw" THEN st2
     ELSE IF st2.port = NoPort THEN st2
     ELSE IF ~st2.runtimeId THEN st2
     ELSE IF PostThrows(st2)
     THEN abortInspection([st2 EXCEPT !.sendError = "caught"])
     ELSE [st2 EXCEPT !.sent = Append(@, FrameHoverMessage(url))]

\* handleHoverEvent(event), event.target = target
handleHoverEvent(st, target) ==
  LET st1 == [st EXCEPT !.hoveredFrame = NoFrame]
  IN IF target.kind = "tooltip" THEN st1
     ELSE LET st2 == handleBodyHover(
                       [st1 EXCEPT !.isHoveringOverPage = TRUE], target)
          IN IF st2.sendError = "uncaught" THEN st2
             ELSE IF ~st2.isInspecting \/ ~IsFrameTarget(target) THEN st2
             ELSE handleFrameHover(st2, target)

\* handleMouseMove(event), with document.hidden = documentHidden
handleMouseMove(st, type, documentHidden) ==
  LET st1 == IF type = "mouseenter" THEN [st EXCEPT !.isHoveringOverPage = TRUE]
             ELSE IF type = "mouseleave"
             THEN [st EXCEPT !.isHoveringOverPage = FALSE]
             ELSE st
  IN IF documentHidden THEN [st1 EXCEPT !.isHoveringOverPage = FALSE] ELSE st1

\* The callback of listenToConnection (lines 104-110) for a new port.
onConnect(st, c) ==
  IF NameStartsWithPrefix(c)
  THEN [st EXCEPT !.port = c, !.portListeners[c] = {"message", "disconnect"}]
  ELSE st

\* ------------------------------------------- tooltip placement (setTooltipPosition)

NotchTopRight == "ps-tooltip-top-right-notch"
NotchTopLeft == "ps-tooltip-top-left-notch"
NotchBottomLeft == "ps-tooltip-bottom-left-notch"
NotchBottomRight == "ps-tooltip-bottom-right-notch"

\* A style value: a number followed by 'px', or a literal string.
Px(n) == << "px", n >>
Literal(str) == << str >>

\* A tooltip element before it is positioned: its inline style, the
\* ps-fixed class and the notch classes of its first child.  The element
\* is made by addTooltip of the popover factory (./popovers), whose file is
\* not part of the source at hand; it is taken as created with an empty
\* inline style and without any of these classes.
NewTooltip ==
  [ node |-> TRUE,
    top |-> Literal(""), left |-> Literal(""), right |-> Literal(""),
    maxWidth |-> Literal(""), fixed |-> FALSE, notch |-> {} ]

NullTooltip ==
  [ node |-> FALSE,
    top |-> Literal(""), left |-> Literal(""), right |-> Literal(""),
    maxWidth |-> Literal(""), fixed |-> FALSE, notch |-> {} ]

\* What one call of setTooltipPosition reads from the tooltip's layout:
\* offsetHeight in the tests of lines 73 and 130, offsetWidth in lines
\* 81-111 and 138-168, and offsetHeightAfter, the offsetHeight read for the
\* top of the above branch (lines 84, 100, 116) after the branch has written
\* left, right or max-width.  The layout is the browser's; the style the
\* call has written so far can change it between two reads.
Reads ==
  [ offsetHeight : 1..MaxTipSize, offsetWidth : 1..MaxTipSize,
    offsetHeightAfter : 1..MaxTipSize ]

\* No read of the tooltip's layout.
NoReads == [ offsetHeight |-> 0, offsetWidth |-> 0, offsetHeightAfter |-> 0 ]

\* tooltip.style.maxWidth = n + 'px': the style declaration ignores a
\* negative length and keeps the value it had.
SetMaxWidth(tooltip, n) ==
  IF n < 0 THEN tooltip ELSE [tooltip EXCEPT !.maxWidth = Px(n)]

\* A frame element as the placement reads it: its bounding rectangle, its
\* offsetHeight and its clientWidth.
NullFrameRect ==
  [ node |-> FALSE, x |-> 0, y |-> 0, width |-> 0, offsetHeight |-> 0,
    clientWidth |-> 0 ]

\* classList.remove of the four notch classes, then classList.add of one.
SetNotch(tooltip, notch) == [tooltip EXCEPT !.notch = {notch}]

\* The pinned branch that keeps the top computed from the scroll offset.
PinTopRight_KeepTop(tooltip) ==
  [tooltip EXCEPT !.fixed = TRUE, !.left = Literal("auto"),
                  !.right = Px(30), !.notch = @ \cup {NotchTopLeft}]

\* Lines 44-52 and 54-62: pinned to the top right of the viewport.
PinTopRight(tooltip) ==
  [tooltip EXCEPT !.fixed = TRUE, !.top = Literal("0"), !.left = Literal("auto"),
                  !.right = Px(30), !.notch = @ \cup {NotchTopLeft}]

\* Lines 64-70: the selected frame is the document itself.
PinSelfOrigin(tooltip) ==
  [tooltip EXCEPT !.top = Px(5), !.fixed = TRUE, !.notch = @ \cup {NotchTopLeft}]

\* Lines 81-126: the tooltip goes above the frame, at the given top.
PlaceAboveAt(tooltip, frame, win, w, top) ==
     IF frame.x + w > win.innerWidth /\ frame.x - w > 0
     THEN SetNotch([tooltip EXCEPT !.left = Px(frame.x - w), !.top = top],
                   NotchBottomRight)
     ELSE IF frame.x + w < win.innerWidth /\ frame.x - w < 0
     THEN SetNotch([tooltip EXCEPT !.left = Px(frame.x + win.scrollX),
                                   !.right = Literal("unset"), !.top = top],
                   NotchBottomLeft)
     ELSE LET leftOverWidth == w - (win.innerWidth - frame.x)
          IN SetNotch([SetMaxWidth(tooltip, frame.width - leftOverWidth) EXCEPT
                         !.left = IF frame.x < 0 THEN Px(0)
                                  ELSE Px(frame.x + win.scrollX),
                         !.top = top],
                      NotchBottomLeft)

\* The top of the above branch without the scroll offset.
PlaceAbove_NoScroll(tooltip, frame, win, m) ==
  PlaceAboveAt(tooltip, frame, win, m.offsetWidth,
               Px(frame.y - m.offsetHeightAfter))

\* Lines 83-85, 99-101, 115-117: the top of a tooltip above the frame.
PlaceAbove(tooltip, frame, win, m) ==
  PlaceAboveAt(tooltip, frame, win, m.offsetWidth,
               Px(frame.y - m.offsetHeightAfter + win.scrollY))

\* Lines 138-183: the tooltip goes below the frame, at the given top.
PlaceBelowAt(tooltip, frame, win, w, top) ==
     IF frame.x + frame.width - win.innerWidth > 0 /\ frame.x + w > win.innerWidth
     THEN SetNotch([tooltip EXCEPT !.left = Literal("unset"),
                                   !.right = Px(frame.x + frame.width),
                                   !.top = top],
                   NotchTopRight)
     ELSE IF frame.x + frame.width - win.innerWidth < 0 /\ frame.x + w < win.innerWidth
     THEN SetNotch([tooltip EXCEPT !.left = Px(frame.x + win.scrollX),
                                   !.right = Literal("unset"), !.top = top],
                   NotchTopLeft)
     ELSE LET leftOverWidth == w - (win.innerWidth - frame.x)
          IN SetNotch([SetMaxWidth(tooltip, frame.width - leftOverWidth) EXCEPT
                         !.left = IF frame.x < 0 THEN Px(0)
                                  ELSE Px(frame.x + win.scrollX),
                         !.top = top],
                      NotchTopLeft)

\* The top of the below branch at the frame's top edge instead of its bottom.
PlaceBelow_AtFrameTop(tooltip, frame, win, m) ==
  PlaceBelowAt(tooltip, frame, win, m.offsetWidth, Px(frame.y + win.scrollY))

\* Lines 141-143, 156-158, 172-174: the top of a tooltip below the frame.
PlaceBelow(tooltip, frame, win, m) ==
  PlaceBelowAt(tooltip, frame, win, m.offsetWidth,
               Px(frame.y + frame.offsetHeight + win.scrollY))

\* setTooltipPosition(tooltip, frame, isHiddenFrame, selectedFrame), with the
\* window it reads (scrollX, scrollY, innerWidth, innerHeight) and the
\* values m its reads of the tooltip's layout return.
setTooltipPosition(tooltip, frame, isHiddenFrame, selectedFrame, win, m) ==
  IF ~tooltip.node THEN tooltip
  ELSE
    LET rect == IF frame.node THEN frame
                ELSE [frame EXCEPT !.x = -1, !.y = -1, !.width = -1]
        t0 == [SetMaxWidth(tooltip, rect.width - 40) EXCEPT
                 !.top = Px(rect.y + win.scrollY),
                 !.left = Px(rect.x + win.scrollX)]
    IN IF ~frame.node THEN PinTopRight(t0)
       ELSE IF isHiddenFrame THEN PinTopRight(t0)
       ELSE IF DocOrigin = selectedFrame THEN PinSelfOrigin(t0)
       ELSE IF rect.y > m.offsetHeight /\ rect.y - m.offsetHeight >= 1
       THEN PlaceAbove(t0, rect, win, m)
       ELSE IF rect.y + m.offsetHeight < win.innerHeight
       THEN PlaceBelow(t0, rect, win, m)
       ELSE [t0 EXCEPT !.top = Px(rect.y)]

\* The reads a call of setTooltipPosition performs, out of the values m the
\* layout would return: none in the pinned branches, no width in the
\* fallback, and the second height in the above branch only.
readsOf(tooltip, frame, isHiddenFrame, selectedFrame, win, m) ==
  IF ~tooltip.node \/ ~frame.node \/ isHiddenFrame \/ DocOrigin = selectedFrame
  THEN NoReads
  ELSE IF frame.y > m.offsetHeight /\ frame.y - m.offsetHeight >= 1
  THEN m
  ELSE IF frame.y + m.offsetHeight < win.innerHeight
  THEN [m EXCEPT !.offsetHeightAfter = 0]
  ELSE [m EXCEPT !.offsetWidth = 0, !.offsetHeightAfter = 0]

\* isElementVisibleInViewport on a bounding rectangle: the rectangle and the
\* viewport intersect.
RectVisibleInViewport(frame, win) ==
  /\ frame.node
  /\ frame.x <= win.innerWidth /\ frame.x + frame.width >= 0
  /\ frame.y <= win.innerHeight /\ frame.y + frame.offsetHeight >= 0

\* The frame's rectangle in the viewport, from its place in the document and
\* the scroll offsets.
FrameOf(sc) ==
  IF ~sc.hasFrame THEN NullFrameRect
  ELSE [ node |-> TRUE, x |-> sc.docX - sc.scrollX, y |-> sc.docY - sc.scrollY,
         width |-> sc.width, offsetHeight |-> sc.height, clientWidth |-> sc.width ]

WindowOf(sc) ==
  [ scrollX |-> sc.scrollX, scrollY |-> sc.scrollY,
    innerWidth |-> ViewportSize, innerHeight |-> ViewportSize ]

\* frame ? !frame.clientWidth : false
IsHiddenNow(frame) == IF frame.node THEN frame.clientWidth = 0 ELSE FALSE

\* The scroll callback of insertTooltip (lines 200-205).
updatePosition(tooltip, sc, m) ==
  IF RectVisibleInViewport(FrameOf(sc), WindowOf(sc))
  THEN setTooltipPosition(tooltip, FrameOf(sc), IsHiddenNow(FrameOf(sc)),
                          sc.selectedFrame, WindowOf(sc), m)
  ELSE tooltip

\* insertTooltip (lines 192-207) on a new tooltip: the first placement, then
\* the callback's first run in addEventListerOnScroll; first and again are
\* the layout values the two calls read.
placeNewTooltip(tooltip, sc, first, again) ==
  updatePosition(
    setTooltipPosition(tooltip, FrameOf(sc), IsHiddenNow(FrameOf(sc)),
                       sc.selectedFrame, WindowOf(sc), first),
    sc, again)

\* The reads of the last call of setTooltipPosition in the scene.
sceneReads(tooltip, sc, m) ==
  readsOf(tooltip, FrameOf(sc), IsHiddenNow(FrameOf(sc)), sc.selectedFrame,
          WindowOf(sc), m)

\* The reads a call in the scene can perform, one record for every outcome
\* of the reads it performs.
ReadsIn(sc) == { sceneReads(NewTooltip, sc, m) : m \in Reads }

\* A scene: the frame, the window, the selection and what the last call of
\* setTooltipPosition read from the tooltip's layout.
Scenes ==
  [ hasFrame : BOOLEAN, docX : 0..MaxDocPos, docY : 0..MaxDocPos,
    width : 0..MaxFrameSize, height : 0..MaxFrameSize,
    scrollX : 0..MaxScroll, scrollY : 0..MaxScroll,
    selectedFrame : {OriginA, DocOrigin}, reads : {NoReads} ]

\* A scene without a frame has one geometry.
ValidScene(sc) ==
  ~sc.hasFrame => sc.docX = 0 /\ sc.docY = 0 /\ sc.width = 0 /\ sc.height = 0

IdleScene ==
  [ hasFrame |-> FALSE, docX |-> 0, docY |-> 0, width |-> 0, height |-> 0,
    scrollX |-> 0, scrollY |-> 0, selectedFrame |-> OriginA,
    reads |-> NoReads ]

\* The tooltip has not been inserted: the document holds no node.
Unplaced == popovers = << >>

\* The scene's frame as the controller reads it: the only frame element of
\* the document.
SceneDoc(sc) ==
  IF ~sc.hasFrame THEN << >>
  ELSE << [ src |-> IF sc.selectedFrame = OriginA THEN "https://a.test/page"
                    ELSE "https://host.test/page",
            region |-> 0,
            inViewport |-> RectVisibleInViewport(FrameOf(sc), WindowOf(sc)),
            observed |-> RectVisibleInViewport(FrameOf(sc), WindowOf(sc)),
            clientWidth |-> sc.width ] >>

\* The counts the controller passes for the scene's frame (getFrameCount).
SceneFrameCount(sc) ==
  getFrameCount(SceneDoc(sc), [i \in 1..Len(SceneDoc(sc)) |-> i])

\* The controller after insertTooltip for the scene's frame: the node is
\* appended and its scroll callback is registered and bound.
insertSceneTooltip(st, sc, numberOfVisibleFrames, numberOfHiddenFrames) ==
  [ insertTooltip([st EXCEPT !.doc = SceneDoc(sc)],
                  IF sc.hasFrame THEN 1 ELSE NoFrame,
                  numberOfVisibleFrames, numberOfHiddenFrames, sc.selectedFrame)
    EXCEPT !.doc = st.doc ]

\* insertTooltip(frame, numberOfVisibleFrames, numberOfHiddenFrames, response)
\* for the scene's frame.
PlaceTooltip(numberOfVisibleFrames, numberOfHiddenFrames, first, again) ==
  /\ tip.node /\ Unplaced
  /\ tip' = placeNewTooltip(tip, scene, first, again)
  /\ scene' = [scene EXCEPT !.reads =
                 IF RectVisibleInViewport(FrameOf(scene), WindowOf(scene))
                 THEN sceneReads(tip, scene, again)
                 ELSE sceneReads(tip, scene, first)]
  /\ called' = TRUE
  /\ LET n == insertSceneTooltip(St, scene, numberOfVisibleFrames,
                                 numberOfHiddenFrames)
     IN /\ popovers' = n.popovers
        /\ scrollEventListeners' = n.scrollEventListeners
        /\ windowScroll' = n.windowScroll
  /\ UNCHANGED << doc, port, isInspecting, isHoveringOverPage,
                  bodyHoverStateSent, hoveredFrame, docListeners,
                  highlighting, connState, portListeners, runtimeId, sent,
                  scrolledTo, sendError, lastOp >>

\* The nodes after the callback of the tooltip with the given id has called
\* setTooltipPosition with isHidden (lines 202-203).
positionedWith(nodes, id, isHidden) ==
  [i \in 1..Len(nodes) |->
     IF nodes[i].id = id THEN [nodes[i] EXCEPT !.isHiddenFrame = isHidden]
     ELSE nodes[i]]

\* The window scrolls to (x, y): the 'scroll' event runs the tooltip's
\* callback, bound at line 219.
ScrollEvent(x, y, m) ==
  /\ tip.node /\ ~Unplaced
  /\ LastInserted(St) \in windowScroll
  /\ << x, y >> # << scene.scrollX, scene.scrollY >>
  /\ LET scrolled == [scene EXCEPT !.scrollX = x, !.scrollY = y]
     IN /\ scene' = IF RectVisibleInViewport(FrameOf(scrolled), WindowOf(scrolled))
                    THEN [scrolled EXCEPT !.reads = sceneReads(tip, scrolled, m)]
                    ELSE scrolled
        /\ tip' = updatePosition(tip, scrolled, m)
        /\ popovers' = IF RectVisibleInViewport(FrameOf(scrolled), WindowOf(scrolled))
                       THEN positionedWith(popovers, LastInserted(St),
                                           IsHiddenNow(FrameOf(scrolled)))
                       ELSE popovers
  /\ called' = RectVisibleInViewport(FrameOf(scene'), WindowOf(scene'))
  /\ UNCHANGED << doc, port, isInspecting, isHoveringOverPage,
                  bodyHoverStateSent, scrollEventListeners, hoveredFrame,
                  docListeners, windowScroll, highlighting, connState,
                  portListeners, runtimeId, sent, scrolledTo, sendError, lastOp >>

\* The page changes the frame's width; no callback of the tooltip runs.
FrameResize(width) ==
  /\ tip.node /\ ~Unplaced
  /\ scene.hasFrame /\ width # scene.width
  /\ scene' = [scene EXCEPT !.width = width]
  /\ called' = FALSE
  /\ UNCHANGED << tip, ctrlVars >>

\* ------------------------------------------------------------------ events

\* The kind of an inspection command, recorded in lastOp.
CommandKind(response) ==
  IF ~response.isInspecting THEN "stop"
  ELSE IF response.selectedFrame # NoSel THEN "select"
  ELSE IF response.removeAllFramePopovers THEN "removeAll"
  ELSE "start"

\* The kind of a pointer event, recorded in lastOp.
HoverKind(target) ==
  IF target.kind = "frame" THEN "hoverFrame"
  ELSE IF target.kind = "tooltip" THEN "hoverTooltip"
  ELSE "hoverBody"

\* The state at the start of an event: the outputs of the previous one are
\* forgotten.
Reset(st, op) ==
  [st EXCEPT !.sent = << >>, !.scrolledTo = 0, !.sendError = "none", !.lastOp = op]

Begin(op) == Reset(St, op)

\* A frame the pointer can reach: rendered in the viewport.
Hoverable(f) == doc[f].inViewport /\ doc[f].clientWidth # 0

Targets ==
  {BodyTarget, TooltipTarget}
    \cup { FrameTarget(f) : f \in 1..(MaxFrames + Len(OtherFrames)) }

\* chrome.runtime.onConnect fires with a new port named c.
Connect(c) ==
  /\ runtimeId
  /\ connState[c] \in {"none", "closed"}
  /\ Apply(onConnect(
       [Begin("connect") EXCEPT !.connState[c] = "open",
                                !.portListeners[c] = {}], c))

\* The channel of connection c is torn down; the port's disconnect event is
\* dispatched later.
TearDown(c) ==
  /\ connState[c] = "open"
  /\ Apply([Begin("teardown") EXCEPT !.connState[c] = "torn"])

\* The extension context is invalidated (the extension is reloaded or
\* removed): chrome.runtime.id becomes undefined and every open channel is
\* torn down.
InvalidateRuntime ==
  /\ runtimeId
  /\ Apply([Begin("invalidate") EXCEPT
       !.runtimeId = FALSE,
       !.connState = [c \in AllConns |->
                        IF connState[c] = "open" THEN "torn" ELSE connState[c]]])

\* port.onDisconnect of connection c dispatches to the listeners added at
\* line 107.
dispatchDisconnect(st, c) ==
  IF "disconnect" \in st.portListeners[c]
  THEN onDisconnect(Reset(st, "disconnect"))
  ELSE Reset(st, "dropped")

\* port.onMessage of connection c dispatches to the listeners added at
\* line 106 and not removed since.
dispatchMessage(st, c, response) ==
  IF "message" \in st.portListeners[c]
  THEN onMessage(Reset(st, CommandKind(response)), response)
  ELSE Reset(st, "dropped")

\* The disconnect event of connection c is dispatched to its listeners.
PortDisconnect(c) ==
  /\ connState[c] = "torn"
  /\ Apply(dispatchDisconnect([St EXCEPT !.connState[c] = "closed"], c))

\* A command arrives on connection c and is dispatched to its listeners.
PortMessage(c, response) ==
  /\ connState[c] = "open"
  /\ Apply(dispatchMessage(St, c, response))

\* A mouseover or mouseout event with the given target reaches the document.
Hover(type, target) ==
  /\ type \in docListeners
  /\ target.kind = "frame" => target.frame \in 1..Len(doc) /\ Hoverable(target.frame)
  /\ target.kind = "tooltip" =>
       \E i \in 1..Len(popovers) : popovers[i].kind = "tooltip"
  /\ Apply(handleHoverEvent(Begin(HoverKind(target)), target))

\* A visibilitychange, mouseleave or mouseenter event.
MouseMove(type, documentHidden) ==
  /\ type \in docListeners
  /\ type = "mouseenter" => ~documentHidden
  /\ Apply(handleMouseMove(Begin("mousemove"), type, documentHidden))

\* The state after construction (lines 46-98), in any document.
Constructed ==
  /\ port = NoPort
  /\ isInspecting = FALSE
  /\ isHoveringOverPage = FALSE
  /\ bodyHoverStateSent = FALSE
  /\ scrollEventListeners = << >>
  /\ hoveredFrame = NoFrame
  /\ docListeners = {}
  /\ windowScroll = {}
  /\ popovers = << >>
  /\ highlighting = FALSE
  /\ connState = [c \in AllConns |-> "none"]
  /\ portListeners = [c \in AllConns |-> {}]
  /\ runtimeId = TRUE
  /\ sent = << >>
  /\ scrolledTo = 0
  /\ sendError = "none"
  /\ lastOp = "init"
  /\ scene = IdleScene
  /\ tip = NullTooltip
  /\ called = FALSE

\* The controller constructed in any document within the bounds.
Init == doc \in Docs /\ Constructed

\* The controller with one session at a time on connection "A".
Next ==
  \/ Connect("A")
  \/ TearDown("A")
  \/ InvalidateRuntime
  \/ PortDisconnect("A")
  \/ \E response \in Responses : PortMessage("A", response)
  \/ \E type \in HoverEvents, target \in Targets : Hover(type, target)
  \/ \E type \in MoveEvents, documentHidden \in BOOLEAN : MouseMove(type, documentHidden)

Spec == Init /\ [][Next]_vars

\* The controller before any connection, in a document without frames.
ControllerIdle ==
  /\ doc = << >>
  /\ port = NoPort
  /\ isInspecting = FALSE
  /\ isHoveringOverPage = FALSE
  /\ bodyHoverStateSent = FALSE
  /\ scrollEventListeners = << >>
  /\ hoveredFrame = NoFrame
  /\ docListeners = {}
  /\ windowScroll = {}
  /\ popovers = << >>
  /\ highlighting = FALSE
  /\ connState = [c \in AllConns |-> "none"]
  /\ portListeners = [c \in AllConns |-> {}]
  /\ runtimeId = TRUE
  /\ sent = << >>
  /\ scrolledTo = 0
  /\ sendError = "none"
  /\ lastOp = "init"

\* The placement of one tooltip: any frame geometry, scroll offset and
\* selected origin within the bounds; the controller is idle.
InitPlace ==
  /\ ControllerIdle
  /\ scene \in { sc \in Scenes : ValidScene(sc) }
  /\ tip = NewTooltip
  /\ called = FALSE

NextPlace ==
  \/ \E first \in ReadsIn(scene), again \in ReadsIn(scene) :
       PlaceTooltip(SceneFrameCount(scene).numberOfVisibleFrames,
                    SceneFrameCount(scene).numberOfHiddenFrames, first, again)
  \/ \E x \in 0..MaxScroll, y \in 0..MaxScroll :
       \E m \in ReadsIn([scene EXCEPT !.scrollX = x, !.scrollY = y]) :
         ScrollEvent(x, y, m)
  \/ \E width \in 0..MaxFrameSize : FrameResize(width)

SpecPlace == InitPlace /\ [][NextPlace]_vars

\* One call of setTooltipPosition in any scene within the bounds, on a
\* tooltip that is new or was positioned by an earlier call: pinned, placed
\* above a frame, or placed below a frame and right-aligned.
PriorTooltips ==
  LET win == WindowOf(IdleScene)
      unit == [ offsetHeight |-> 1, offsetWidth |-> 1, offsetHeightAfter |-> 1 ]
      frameAt(x, y) == [ node |-> TRUE, x |-> x, y |-> y, width |-> 1,
                         offsetHeight |-> 1, clientWidth |-> 1 ]
  IN { NewTooltip,
       setTooltipPosition(NewTooltip, NullFrameRect, FALSE, OriginA, win, NoReads),
       setTooltipPosition(NewTooltip, frameAt(0, 2), FALSE, OriginA, win, unit),
       setTooltipPosition(NewTooltip, frameAt(ViewportSize, 0), FALSE, OriginA,
                          win, unit) }

InitCall ==
  /\ ControllerIdle
  /\ scene \in { sc \in Scenes : ValidScene(sc) }
  /\ tip \in PriorTooltips
  /\ called = FALSE

\* setTooltipPosition(tooltip, frame, isHidden, response.selectedFrame) as
\* insertTooltip calls it (lines 192-198 and 202-203).
PositionCall(m) ==
  /\ ~called
  /\ tip' = setTooltipPosition(tip, FrameOf(scene), IsHiddenNow(FrameOf(scene)),
                               scene.selectedFrame, WindowOf(scene), m)
  /\ scene' = [scene EXCEPT !.reads = sceneReads(tip, scene, m)]
  /\ called' = TRUE
  /\ UNCHANGED ctrlVars

NextCall == \E m \in ReadsIn(scene) : PositionCall(m)

SpecCall == InitCall /\ [][NextCall]_vars

\* Frames without a usable source, rendered in the viewport: one without
\* the src attribute and one whose src is the empty string.
SourcelessFrameElements ==
  << [src |-> NullSrc, region |-> 0, inViewport |-> TRUE, observed |-> TRUE, clientWidth |-> 1],
     [src |-> "",      region |-> 0, inViewport |-> TRUE, observed |-> TRUE, clientWidth |-> 1] >>

\* The controller with every connection the platform may open, in the
\* document of one visible frame of the inspected origin, the frames no
\* command matches and the frames without a source.
ConnDoc ==
  << CHOOSE k \in FrameKinds : k.inViewport >> \o OtherFrames \o SourcelessFrameElements

InitConn == doc = ConnDoc /\ Constructed

NextConn ==
  \/ \E c \in AllConns : Connect(c)
  \/ \E c \in AllConns : TearDown(c)
  \/ InvalidateRuntime
  \/ \E c \in AllConns : PortDisconnect(c)
  \/ \E c \in AllConns, response \in Responses : PortMessage(c, response)
  \/ \E type \in HoverEvents, target \in Targets : Hover(type, target)
  \/ \E type \in MoveEvents, documentHidden \in BOOLEAN : MouseMove(type, documentHidden)

SpecConn == InitConn /\ [][NextConn]_vars

\* ------------------------------------------------------- observation helpers

TooltipsOf(st) == SelectSeq(st.popovers, LAMBDA p : p.kind = "tooltip")
OverlaysOf(st) == SelectSeq(st.popovers, LAMBDA p : p.kind = "overlay")

\* The rendered popover set: the nodes without their identities, and the
\* sizes of the scroll registry and of the window's scroll bindings.
Rendered(st) ==
  [ nodes |-> [i \in 1..Len(st.popovers) |-> [st.popovers[i] EXCEPT !.id = 0]],
    registry |-> Len(st.scrollEventListeners),
    bound |-> Cardinality(st.windowScroll) ]

\* A handler run as the next event of state st.
CommandStep(st, response) == onMessage(Reset(st, CommandKind(response)), response)
HoverStep(st, target) == handleHoverEvent(Reset(st, HoverKind(target)), target)

BodyReports(st) ==
  Cardinality({ i \in 1..Len(st.sent) : st.sent[i] = BodyHoverMessage })

\* The session is open: a port is held and its channel is not torn down.
SessionOpen == port # NoPort /\ connState[port] = "open"

\* --------------------------------------------------------------------- C1

\* C1: in every reachable state the document holds at most one tooltip
\* element.
C1_AtMostOneTooltip == Len(TooltipsOf(St)) <= 1

\* --------------------------------------------------------------------- C2

\* C2: in every reachable state the number of scroll callbacks bound to the
\* window equals the number of rendered popovers (overlays plus tooltips).
C2_ScrollBindingsMatchPopovers == Cardinality(windowScroll) = Len(popovers)

\* --------------------------------------------------------------------- C3

StartCommands ==
  { r \in Responses : r.isInspecting /\ r.selectedFrame # NoSel }

\* C3: from every reachable state, the command {isInspecting: true,
\* selectedFrame: X} processed twice in a row renders the same popover set
\* (same nodes in the same order, same registry size, same number of bound
\* scroll callbacks) as the command processed once.
C3_StartIdempotent ==
  \A r \in StartCommands :
    Rendered(CommandStep(CommandStep(St, r), r)) = Rendered(CommandStep(St, r))

\* --------------------------------------------------------------------- C4

\* The body-hover reports of two consecutive body mouseovers from the
\* current state.
C4_FirstTwo ==
  LET h1 == HoverStep(St, BodyTarget)
      h2 == HoverStep(h1, BodyTarget)
  IN BodyReports(h1) + BodyReports(h2)

\* The body-hover reports of a hover on frame f after them, and of the body
\* mouseover that follows it.
C4_ThenFrameAndBack(f) ==
  LET h2 == HoverStep(HoverStep(St, BodyTarget), BodyTarget)
      h3 == HoverStep(h2, FrameTarget(f))
      h4 == HoverStep(h3, BodyTarget)
  IN << BodyReports(h3), BodyReports(h4) >>

\* C4 as stated: while inspecting with an open session, two consecutive
\* body mouseovers send exactly one body-hover report, and a following hover
\* on a frame and back on the body sends exactly one more.
C4_DebounceAsStated ==
  (isInspecting /\ SessionOpen /\ "mouseover" \in docListeners) =>
    /\ C4_FirstTwo = 1
    /\ \A f \in 1..Len(doc) : Hoverable(f) => C4_ThenFrameAndBack(f) = << 0, 1 >>

\* C4 (amended): the same, for two body mouseovers the first of which
\* arrives with the debounce flag clear.
C4_Debounce ==
  (isInspecting /\ SessionOpen /\ "mouseover" \in docListeners
     /\ ~bodyHoverStateSent) =>
    /\ C4_FirstTwo = 1
    /\ \A f \in 1..Len(doc) : Hoverable(f) => C4_ThenFrameAndBack(f) = << 0, 1 >>

\* The state after the second of two body mouseovers: inspecting, session
\* open, the report already sent and nothing sent by this event.
C4_Witness ==
  /\ lastOp = "hoverBody"
  /\ isInspecting /\ SessionOpen
  /\ bodyHoverStateSent
  /\ sent = << >>
  /\ \E f \in 1..Len(doc) : Hoverable(f)

\* --------------------------------------------------------------------- C5

\* C5: right after the disconnect event is handled no popover is rendered
\* and no callback the controller installed is bound: no hover or
\* visibility handler and no window scroll callback.
C5_DisconnectTearsDown ==
  lastOp = "disconnect" =>
    /\ popovers = << >>
    /\ docListeners = {}
    /\ windowScroll = {}

\* --------------------------------------------------------------------- C6

\* C6: whenever postMessage throws during a hover event, the error is
\* caught and the controller ends in Idle: not inspecting, hover and
\* visibility listeners removed, popovers cleared, highlighting disabled.
C6_SendFailureAborts ==
  sendError # "none" =>
    /\ sendError = "caught"
    /\ ~isInspecting
    /\ docListeners = {}
    /\ popovers = << >>
    /\ ~highlighting

\* --------------------------------------------------------------------- C7

\* C7: after a command with isInspecting = true, removeAllFramePopovers =
\* true and no selectedFrame, no popover exists and the command has sent no
\* message.
C7_RemoveAllCommand ==
  lastOp = "removeAll" => popovers = << >> /\ sent = << >>

\* A removeAll command that found popovers to remove: their scroll
\* callbacks are still registered.
C7_Witness ==
  /\ lastOp = "removeAll"
  /\ Len(scrollEventListeners) >= 2
  /\ popovers = << >>

\* --------------------------------------------------------------------- C8

\* The first frame of the list confirmed visible in the viewport, the first
\* frame of the list if none is.
FirstConfirmedVisible(d, frameElements) ==
  LET seen == { i \in 1..Len(frameElements) :
                  isElementVisibleInViewport(d, frameElements[i], TRUE) }
  IN IF seen = {} THEN frameElements[1]
     ELSE frameElements[CHOOSE i \in seen : \A j \in seen : i <= j]

\* C8: from every reachable state with no frame hovered, a command whose
\* matching frames are all visible renders one overlay per match and exactly
\* one tooltip, anchored at the first match confirmed visible in the
\* viewport (the first match if none is); no auto-scroll happens when that
\* frame is in the viewport.
C8_AnchorFirstVisible ==
  (SessionOpen /\ hoveredFrame = NoFrame) =>
    \A sel \in {OriginA, OriginB} :
      LET matches == findSelectedFrameElements(doc, sel)
          anchor == FirstConfirmedVisible(doc, matches)
          after == CommandStep(St, [ isInspecting |-> TRUE, selectedFrame |-> sel,
                                     removeAllFramePopovers |-> FALSE ])
          tips == TooltipsOf(after)
      IN (Len(matches) > 0 /\ getFrameCount(doc, matches).numberOfHiddenFrames = 0) =>
           /\ Len(OverlaysOf(after)) = Len(matches)
           /\ Len(tips) = 1
           /\ tips[1].frame = anchor
           /\ isElementVisibleInViewport(doc, anchor, FALSE) => after.scrolledTo = 0

\* --------------------------------------------------------------------- C9

\* The frame and window of the last call of setTooltipPosition.
CalledOnFrame ==
  /\ called
  /\ scene.hasFrame
  /\ ~IsHiddenNow(FrameOf(scene))
  /\ scene.selectedFrame # DocOrigin

\* C9: after setTooltipPosition on a non-hidden frame of another origin
\* whose top edge minus the tooltip height is at least 1, top is
\* frameY - tooltipHeight + scrollY and the only notch is a bottom notch.
\* The tooltip height is tooltip.offsetHeight, in the test as line 73 reads
\* it and in the top as lines 84, 100 and 116 read it.
C9_PlacementAbove ==
  (CalledOnFrame /\ FrameOf(scene).y - scene.reads.offsetHeight >= 1) =>
    /\ tip.top = Px(FrameOf(scene).y - scene.reads.offsetHeightAfter + scene.scrollY)
    /\ tip.notch \in { {NotchBottomLeft}, {NotchBottomRight} }

\* A tooltip placed above a frame in a scrolled window, right-aligned, whose
\* height changed between the test and the computation of the top.
C9_Witness ==
  /\ CalledOnFrame
  /\ FrameOf(scene).y - scene.reads.offsetHeight >= 1
  /\ scene.reads.offsetHeightAfter # scene.reads.offsetHeight
  /\ scene.scrollY > 0
  /\ tip.notch = {NotchBottomRight}

\* -------------------------------------------------------------------- C10

\* C10: after setTooltipPosition on a non-hidden frame of another origin
\* with no room above (frameY - tooltipHeight < 1) and room below (frame
\* bottom + tooltip height < viewport height), top is
\* frameY + frameHeight + scrollY and the only notch is a top notch.
C10_PlacementBelow ==
  ( /\ CalledOnFrame
    /\ FrameOf(scene).y - scene.reads.offsetHeight < 1
    /\ FrameOf(scene).y + FrameOf(scene).offsetHeight + scene.reads.offsetHeight
         < WindowOf(scene).innerHeight ) =>
    /\ tip.top = Px(FrameOf(scene).y + FrameOf(scene).offsetHeight + scene.scrollY)
    /\ tip.notch \in { {NotchTopLeft}, {NotchTopRight} }

\* A tooltip placed below a frame that has height, in a scrolled window,
\* with the top-right notch.
C10_Witness ==
  /\ CalledOnFrame
  /\ FrameOf(scene).y - scene.reads.offsetHeight < 1
  /\ FrameOf(scene).y + FrameOf(scene).offsetHeight + scene.reads.offsetHeight
       < WindowOf(scene).innerHeight
  /\ FrameOf(scene).offsetHeight > 0
  /\ scene.scrollY > 0
  /\ tip.notch = {NotchTopRight}

\* -------------------------------------------------------------------- C11

StopCommands == { r \in Responses : ~r.isInspecting }

\* The inspection state: the flag, the bound hover and visibility
\* listeners, the rendered popovers, the scroll registry with the callbacks
\* bound to the window, and the highlighting mode.
InspectionState(st) ==
  [ isInspecting |-> st.isInspecting, docListeners |-> st.docListeners,
    popovers |-> st.popovers, scrollEventListeners |-> st.scrollEventListeners,
    windowScroll |-> st.windowScroll, highlighting |-> st.highlighting ]

\* C11: from every reachable state, handling the session's disconnect and
\* handling a command {isInspecting: false} lead to the same inspection
\* state.
C11_DisconnectIsStop ==
  \A r \in StopCommands :
    InspectionState(onDisconnect(St)) = InspectionState(onMessage(St, r))

\* A disconnect about to be dispatched to an inspecting controller with
\* popovers rendered: handling it changes the inspection state.
C11_Witness ==
  /\ port # NoPort /\ connState[port] = "torn"
  /\ "disconnect" \in portListeners[port]
  /\ isInspecting /\ Len(popovers) >= 2 /\ highlighting
  /\ InspectionState(onDisconnect(St)) # InspectionState(St)
  /\ onDisconnect(St).port # port

\* -------------------------------------------------------------------- C12

AcceptedNames == { c \in AllConns : NameStartsWithPrefix(c) }

\* An event that reaches no handler: nothing but the event's own record
\* changes.
NoTransition(st, after) == after = Reset(st, "dropped")

\* C12: once a later connection holds the session handle, a command
\* arriving on an earlier connection that is still open drives no
\* controller transition.
C12_OneActiveSession ==
  \A c \in AcceptedNames :
    (port # NoPort /\ port # c /\ connState[c] = "open") =>
      \A r \in Responses : NoTransition(St, dispatchMessage(St, c, r))

\* -------------------------------------------------------------------- C13

\* The connection whose name does not start with WEBPAGE_PORT_NAME.
ForeignConn == "X"

\* C13: the connection with a foreign name never holds the session handle,
\* connecting it changes nothing in the controller, and neither a command
\* arriving on it nor its disconnect drives a controller transition.
C13_ChannelIdentity ==
  /\ port # ForeignConn
  /\ onConnect(St, ForeignConn) = St
  /\ \A r \in Responses : NoTransition(St, dispatchMessage(St, ForeignConn, r))
  /\ NoTransition(St, dispatchDisconnect(St, ForeignConn))

\* A command has just arrived on the open foreign connection while a
\* session on an accepted connection is inspecting with popovers rendered:
\* every open accepted connection still has its message listener, so the
\* dropped event is the foreign one.
C13_Witness ==
  /\ lastOp = "dropped"
  /\ connState[ForeignConn] = "open"
  /\ \A c \in AcceptedNames : connState[c] = "open" => "message" \in portListeners[c]
  /\ SessionOpen /\ isInspecting /\ Len(popovers) >= 2

\* -------------------------------------------------------------------- C14

\* C14: after a command with a selectedFrame every tooltip is anchored at
\* one of the frames matching the selectedFrame, and at no frame when
\* nothing matches.
C14_AnchorAmongMatches ==
  lastOp = "select" =>
    \A i \in 1..Len(popovers) :
      popovers[i].kind = "tooltip" =>
        LET matches == findSelectedFrameElements(doc, popovers[i].selectedFrame)
        IN IF Len(matches) = 0 THEN popovers[i].frame = NoFrame
           ELSE popovers[i].frame \in Range(matches)

\* -------------------------------------------------------------------- C15

NonHiddenOf(d, frameElements) ==
  SelectSeq(frameElements, LAMBDA f : ~isFrameHidden(d, f))

FramesOf(nodes) == [i \in 1..Len(nodes) |-> nodes[i].frame]

\* C15: for a command whose matches are partly hidden, the insertion
\* renders an overlay and a tooltip for exactly the non-hidden matches, in
\* match order, overlays first, and records as firstToolTip the tooltip of
\* the first non-hidden match.
C15_MixedPrimary ==
  SessionOpen =>
    \A sel \in {OriginA, OriginB} :
      LET frameElements == findSelectedFrameElements(doc, sel)
          frameCount == getFrameCount(doc, frameElements)
          shown == NonHiddenOf(doc, frameElements)
          r == insertPopoversConditionHandler(
                 drainAndRemoveAllPopovers(St), frameElements,
                 frameCount.numberOfVisibleFrames,
                 frameCount.numberOfHiddenFrames, sel)
      IN (frameCount.numberOfHiddenFrames > 0
            /\ frameCount.numberOfVisibleFrames > 0) =>
           /\ FramesOf(r.st.popovers) = shown \o shown
           /\ FramesOf(OverlaysOf(r.st)) = shown
           /\ FramesOf(TooltipsOf(r.st)) = shown
           /\ r.firstToolTip = TooltipsOf(r.st)[1].id

\* -------------------------------------------------------------------- C16

SelectCommand(sel) ==
  [ isInspecting |-> TRUE, selectedFrame |-> sel, removeAllFramePopovers |-> FALSE ]

\* The frame carrying the node with the given id, NoFrame for no node.
FrameCarrying(st, id) ==
  IF \E i \in 1..Len(st.popovers) : st.popovers[i].id = id
  THEN (CHOOSE p \in Range(st.popovers) : p.id = id).frame
  ELSE NoFrame

\* C16: a command with a selectedFrame scrolls the primary tooltip into
\* view if and only if a primary tooltip exists, the pointer is not over the
\* page, and the frame carrying the primary tooltip has nonzero width and is
\* not visible in the viewport.
C16_AutoScrollGuard ==
  SessionOpen =>
    \A sel \in {OriginA, OriginB} :
      LET frameElements == findSelectedFrameElements(doc, sel)
          frameCount == getFrameCount(doc, frameElements)
          after == CommandStep(St, SelectCommand(sel))
          firstToolTip ==
            IF Len(frameElements) = 0 THEN 0
            ELSE insertPopoversConditionHandler(
                   drainAndRemoveAllPopovers(St), frameElements,
                   frameCount.numberOfVisibleFrames,
                   frameCount.numberOfHiddenFrames, sel).firstToolTip
          anchor == FrameCarrying(after, firstToolTip)
      IN /\ after.scrolledTo \in {0, firstToolTip}
         /\ after.scrolledTo # 0 <=>
              /\ firstToolTip # 0
              /\ ~isHoveringOverPage
              /\ anchor # NoFrame
              /\ doc[anchor].clientWidth # 0
              /\ ~isElementVisibleInViewport(doc, anchor, FALSE)

\* -------------------------------------------------------------------- C17

\* The start commands whose selectedFrame matches no frame of the document.
UnlocatableCommands ==
  { r \in StartCommands : Len(findSelectedFrameElements(doc, r.selectedFrame)) = 0 }

\* C17: from every reachable state, a command whose selectedFrame matches
\* no frame leaves exactly one popover, a tooltip with no frame and counts
\* (0, 0), whose scroll callback is the only one registered and bound; it
\* scrolls nothing and the controller is inspecting.
C17_UnlocatableTarget ==
  \A r \in UnlocatableCommands :
    LET after == CommandStep(St, r)
    IN /\ Len(after.popovers) = 1
       /\ after.popovers[1].kind = "tooltip"
       /\ after.popovers[1].frame = NoFrame
       /\ after.popovers[1].visible = 0 /\ after.popovers[1].hidden = 0
       /\ after.scrollEventListeners = << after.popovers[1].id >>
       /\ after.windowScroll = { after.popovers[1].id }
       /\ after.scrolledTo = 0
       /\ after.isInspecting /\ after.docListeners = HoverEvents \cup MoveEvents

\* An open session with overlays and a tooltip rendered and their scroll
\* callbacks bound, where a command with an unlocatable target replaces
\* them by the single tooltip.
C17_Witness ==
  /\ SessionOpen /\ isInspecting
  /\ Len(OverlaysOf(St)) >= 2
  /\ Cardinality(windowScroll) >= 3
  /\ \E r \in UnlocatableCommands :
       /\ Len(CommandStep(St, r).popovers) = 1
       /\ Cardinality(CommandStep(St, r).windowScroll) = 1

\* -------------------------------------------------------------------- C18

IdsOf(nodes) == { nodes[i].id : i \in 1..Len(nodes) }

\* The frames without a source that the pointer can reach.
SourcelessFrames ==
  { f \in 1..Len(doc) : Hoverable(f) /\ doc[f].src \in {NullSrc, "", "about:blank"} }

\* C18: every callback bound to the window's scroll event is an entry of
\* scrollEventListeners; after a command with a selectedFrame the bound
\* callbacks are exactly those of the popovers it rendered, and after a
\* hover on a source-less frame while inspecting they are exactly the two
\* it created.
C18_NoOrphanedScrollListener ==
  /\ windowScroll \subseteq Range(scrollEventListeners)
  /\ \A r \in StartCommands :
       LET after == CommandStep(St, r)
       IN /\ after.windowScroll = IdsOf(after.popovers)
          /\ Range(after.scrollEventListeners) = IdsOf(after.popovers)
          /\ Len(after.scrollEventListeners) = Len(after.popovers)
  /\ isInspecting =>
       \A f \in SourcelessFrames :
         LET after == HoverStep(St, FrameTarget(f))
         IN /\ after.windowScroll = Range(after.scrollEventListeners)
            /\ Len(after.scrollEventListeners) = 2
            /\ Cardinality(after.windowScroll) = 2
            /\ after.popovers # << >> => after.windowScroll = IdsOf(after.popovers)

\* An inspecting controller whose popovers were cleared while their scroll
\* callbacks stayed bound, and a command that replaces those callbacks by
\* the ones of the popovers it renders.
C18_Witness ==
  /\ SessionOpen /\ isInspecting
  /\ popovers = << >>
  /\ Cardinality(windowScroll) >= 2
  /\ SourcelessFrames # {}
  /\ \E r \in StartCommands :
       /\ Len(CommandStep(St, r).popovers) >= 3
       /\ CommandStep(St, r).windowScroll = IdsOf(CommandStep(St, r).popovers)

\* -------------------------------------------------------------------- C19

\* The frames the pointer can reach whose non-empty src the URL parser
\* rejects.
MalformedFrames ==
  { f \in 1..Len(doc) : Hoverable(f) /\ doc[f].src = "not a url" }

\* C19: while inspecting, a hover on a frame whose src cannot be parsed
\* sends nothing and raises nothing, keeps isInspecting, the bound listeners
\* and the rendered popovers with their scroll callbacks, records the frame
\* as hoveredFrame and clears the debounce flag.
C19_MalformedUrlHover ==
  (isInspecting /\ "mouseover" \in docListeners) =>
    \A f \in MalformedFrames :
      LET after == HoverStep(St, FrameTarget(f))
      IN /\ after.sent = << >>
         /\ after.sendError = "none"
         /\ after.isInspecting
         /\ after.docListeners = docListeners
         /\ after.popovers = popovers
         /\ after.scrollEventListeners = scrollEventListeners
         /\ after.windowScroll = windowScroll
         /\ after.hoveredFrame = f
         /\ ~after.bodyHoverStateSent

\* The state after a hover on the malformed frame with popovers rendered
\* and the session's channel torn down: a send would have thrown.
C19_Witness ==
  /\ lastOp = "hoverFrame"
  /\ hoveredFrame \in MalformedFrames
  /\ isInspecting /\ Len(popovers) >= 2
  /\ port # NoPort /\ connState[port] = "torn" /\ runtimeId
  /\ sent = << >>

\* -------------------------------------------------------------------- C20

\* The popover set of a hover on the source-less frame f: one overlay and
\* one tooltip on f with counts (1, 0), their scroll callbacks the only ones
\* registered and bound.
OnlySourcelessPopovers(st, f) ==
  /\ Len(st.popovers) = 2
  /\ st.popovers[1].kind = "overlay" /\ st.popovers[1].frame = f
  /\ st.popovers[2].kind = "tooltip" /\ st.popovers[2].frame = f
  /\ st.popovers[2].visible = 1 /\ st.popovers[2].hidden = 0
  /\ st.scrollEventListeners = << st.popovers[1].id, st.popovers[2].id >>
  /\ st.windowScroll = IdsOf(st.popovers)

\* C20 as stated: while inspecting, a hover on a source-less frame leaves
\* exactly one overlay and one tooltip on that frame, with or without a
\* session handle.
C20_SourcelessHoverAsStated ==
  (isInspecting /\ "mouseover" \in docListeners) =>
    \A f \in SourcelessFrames :
      OnlySourcelessPopovers(HoverStep(St, FrameTarget(f)), f)

\* The report that follows the insertion throws: a handle is held, the
\* extension runtime is alive and the handle's channel is torn down.
ReportThrows ==
  port # NoPort /\ runtimeId /\ connState[port] = "torn"

\* C20 (amended): while inspecting, a hover on a frame whose src is absent,
\* empty or about:blank leaves exactly one overlay and one tooltip on that
\* frame with counts (1, 0) and their two scroll callbacks as the only ones
\* registered and bound, with or without a session handle; when the report
\* that follows the insertion throws, the handler catches it, inspection is
\* aborted (flag clear, listeners unbound, highlighting off), no popover is
\* left and nothing was sent.
C20_SourcelessHover ==
  (isInspecting /\ "mouseover" \in docListeners) =>
    \A f \in SourcelessFrames :
      LET after == HoverStep(St, FrameTarget(f))
      IN IF ReportThrows
         THEN /\ after.sendError = "caught"
              /\ ~after.isInspecting
              /\ after.docListeners = {}
              /\ ~after.highlighting
              /\ after.popovers = << >>
              /\ after.sent = << >>
         ELSE /\ after.sendError = "none"
              /\ after.isInspecting
              /\ OnlySourcelessPopovers(after, f)

\* The state after a hover on the frame without a src attribute, with no
\* session handle: the overlay and the tooltip are rendered and nothing
\* was sent.
C20_Witness ==
  /\ lastOp = "hoverFrame"
  /\ port = NoPort /\ isInspecting
  /\ hoveredFrame \in SourcelessFrames
  /\ doc[hoveredFrame].src = NullSrc
  /\ OnlySourcelessPopovers(St, hoveredFrame)
  /\ sent = << >>

\* -------------------------------------------------------------------- C21

PlainStart ==
  [ isInspecting |-> TRUE, selectedFrame |-> NoSel, removeAllFramePopovers |-> FALSE ]

\* C21: from every reachable state, a command with isInspecting = true and
\* neither selectedFrame nor removeAllFramePopovers changes nothing but
\* isInspecting (true), the hover and visibility listeners (bound) and the
\* highlighting (enabled): popovers, registry and bound scroll callbacks
\* stay, nothing is sent and nothing is scrolled.
C21_PlainStart ==
  CommandStep(St, PlainStart) =
    [Reset(St, "start") EXCEPT !.isInspecting = TRUE,
                               !.docListeners = HoverEvents \cup MoveEvents,
                               !.highlighting = TRUE]

\* The state after such a command that found popovers rendered and left
\* them in place.
C21_Witness ==
  /\ lastOp = "start"
  /\ isInspecting /\ highlighting
  /\ Len(OverlaysOf(St)) >= 2 /\ Len(TooltipsOf(St)) >= 1
  /\ Len(scrollEventListeners) = Len(popovers)

\* -------------------------------------------------------------------- C22

\* C22: after setTooltipPosition with no frame or with a hidden frame the
\* tooltip is pinned: top 0, left auto, right 30px, the fixed class and the
\* top-left notch, whatever the scroll offsets and whatever the selected
\* origin.
C22_PinnedTopRight ==
  (called /\ (~scene.hasFrame \/ IsHiddenNow(FrameOf(scene)))) =>
    /\ tip.top = Literal("0")
    /\ tip.left = Literal("auto")
    /\ tip.right = Px(30)
    /\ tip.fixed
    /\ NotchTopLeft \in tip.notch

\* A hidden frame of the document's own origin in a scrolled window, pinned
\* top-right and not at 5px.
C22_Witness ==
  /\ called /\ scene.hasFrame /\ IsHiddenNow(FrameOf(scene))
  /\ scene.selectedFrame = DocOrigin
  /\ scene.scrollY > 0 /\ scene.scrollX > 0
  /\ tip.top = Literal("0") /\ tip.right = Px(30)

\* -------------------------------------------------------------------- C23

NotchClasses == {NotchTopLeft, NotchTopRight, NotchBottomLeft, NotchBottomRight}

\* C23: after every invocation of setTooltipPosition, the first placement
\* and every scroll-driven one, exactly one of the four notch classes is
\* set on the tooltip.
C23_ExactlyOneNotch ==
  called => Cardinality(tip.notch \cap NotchClasses) = 1

\* -------------------------------------------------------------------- C24

\* The frame is placed by one of the non-pinned branches.
NonPinned == CalledOnFrame

RoomAbove == FrameOf(scene).y - scene.reads.offsetHeight >= 1

\* The code's test for the below branch (line 130).
CodeRoomBelow == FrameOf(scene).y + scene.reads.offsetHeight < WindowOf(scene).innerHeight

\* The viewport-relative top and left of the branch taken.
ViewportTop ==
  IF RoomAbove THEN FrameOf(scene).y - scene.reads.offsetHeightAfter
  ELSE IF CodeRoomBelow THEN FrameOf(scene).y + FrameOf(scene).offsetHeight
  ELSE FrameOf(scene).y

ViewportLeft ==
  LET x == FrameOf(scene).x
      w == scene.reads.offsetWidth
  IN IF RoomAbove /\ x + w > WindowOf(scene).innerWidth /\ x - w > 0
     THEN x - w
     ELSE IF x < 0 THEN 0 ELSE x

\* C24: in every non-pinned branch the resulting top is the branch's
\* viewport top plus window.scrollY and the resulting left, where the branch
\* sets one, is the branch's viewport left plus window.scrollX.
C24_DocumentRelative ==
  NonPinned =>
    /\ tip.top = Px(ViewportTop + scene.scrollY)
    /\ tip.left \in { Px(ViewportLeft + scene.scrollX), Literal("unset") }

\* -------------------------------------------------------------------- C25

\* Room below as the claim defines it: frame bottom plus tooltip height is
\* less than the viewport height.
SpecRoomBelow ==
  FrameOf(scene).y + FrameOf(scene).offsetHeight + scene.reads.offsetHeight
    < WindowOf(scene).innerHeight

\* C25: with no room above, the tooltip is anchored below the frame (top =
\* frame bottom + scrollY, a top notch) if and only if frame bottom +
\* tooltip height < viewport height, and is otherwise pinned at the frame's
\* top edge.
C25_RoomBelowTest ==
  (NonPinned /\ ~RoomAbove) =>
    IF SpecRoomBelow
    THEN /\ tip.top = Px(FrameOf(scene).y + FrameOf(scene).offsetHeight + scene.scrollY)
         /\ tip.notch \in { {NotchTopLeft}, {NotchTopRight} }
    ELSE tip.top = Px(FrameOf(scene).y)

\* -------------------------------------------------------------------- C26

\* C26: the rendered nodes, in the order of their insertion, are the
\* overlays followed by the tooltips, the overlays in match-list (document)
\* order and the tooltips in match-list order.
C26_InsertionOrder ==
  /\ \A i, j \in 1..Len(popovers) :
       (popovers[i].kind = "tooltip" /\ popovers[j].kind = "overlay") => j < i
  /\ \A i, j \in 1..Len(popovers) :
       (i < j /\ popovers[i].kind = popovers[j].kind) =>
         popovers[i].frame < popovers[j].frame

\* A mixed insertion that rendered two overlays and two tooltips.
C26_Witness ==
  /\ lastOp = "select"
  /\ Len(OverlaysOf(St)) >= 2
  /\ Len(TooltipsOf(St)) >= 2

\* -------------------------------------------------------------------- C27

\* C27: between events the five hover and visibility listeners are bound
\* exactly when isInspecting is true, and frame highlighting is enabled
\* exactly when isInspecting is true.
C27_ListenersFollowInspecting ==
  /\ docListeners = IF isInspecting THEN HoverEvents \cup MoveEvents ELSE {}
  /\ highlighting <=> isInspecting

\* The state after a send failure caught by the frame path: inspection
\* aborted, no listener bound, highlighting off.
C27_Witness ==
  /\ sendError = "caught"
  /\ ~isInspecting /\ docListeners = {} /\ ~highlighting

\* -------------------------------------------------------------------- C28

\* C28: the debounce flag is cleared only by a hover on a frame while
\* inspecting; and while it is set, a body mouseover of an inspecting
\* controller with a session handle sends nothing and leaves the popovers
\* in place.
C28_FlagClearedOnlyByFrameHover ==
  /\ [][ (bodyHoverStateSent /\ ~bodyHoverStateSent') =>
           (isInspecting /\ lastOp' = "hoverFrame") ]_vars
  /\ [](  (bodyHoverStateSent /\ isInspecting /\ port # NoPort) =>
            /\ HoverStep(St, BodyTarget).sent = << >>
            /\ HoverStep(St, BodyTarget).popovers = popovers
            /\ HoverStep(St, BodyTarget).bodyHoverStateSent )

\* The state after a body mouseover that sent nothing and left the
\* popovers of a start command in place: the flag was set before the
\* command.
C28_Witness ==
  /\ lastOp = "hoverBody"
  /\ isInspecting /\ SessionOpen /\ bodyHoverStateSent
  /\ sent = << >>
  /\ Len(popovers) >= 2

\* -------------------------------------------------------------------- C29

\* The disconnect event of the torn-down connection c, handled from the
\* current state.
DisconnectStep(c) == dispatchDisconnect([St EXCEPT !.connState[c] = "closed"], c)

\* C29: the disconnect of any accepted connection clears the session
\* handle and aborts the inspection; the message listener is detached from
\* the connection that held the handle, whichever connection disconnected,
\* and every other listener stays; commands arriving afterwards on the
\* connection that held the handle drive no controller transition.
C29_DisconnectOfAnyConnection ==
  \A c \in AcceptedNames :
    (connState[c] = "torn" /\ "disconnect" \in portListeners[c]) =>
      LET after == DisconnectStep(c)
      IN /\ after.port = NoPort
         /\ ~after.isInspecting /\ after.docListeners = {}
         /\ after.popovers = << >> /\ ~after.highlighting
         /\ after.portListeners =
              IF port = NoPort THEN portListeners
              ELSE [portListeners EXCEPT ![port] = @ \ {"message"}]
         /\ port # NoPort =>
              \A r \in Responses :
                NoTransition(after, dispatchMessage(after, port, r))

\* The state after connect(A), connect(B), a start command on B and the
\* disconnect of A: B is open without its message listener, A keeps its
\* own, the handle is absent.
C29_Witness ==
  /\ lastOp = "disconnect"
  /\ \E a, b \in AcceptedNames :
       /\ a # b
       /\ connState[a] = "closed" /\ connState[b] = "open"
       /\ "message" \in portListeners[a]
       /\ "message" \notin portListeners[b]
  /\ port = NoPort /\ ~isInspecting
  /\ Len(scrollEventListeners) >= 2

====
